---- MODULE Spec2Model ----
(***************************************************************************)
(* Model of the pseudonymisation service (pseudonym-service) and of the    *)
(* backend orchestrator that calls it (backend).                           *)
(*                                                                         *)
(* A text is a sequence of pieces.  A piece is an indivisible run of       *)
(* characters: a run of letters, a run of digits, a whitespace character,  *)
(* a punctuation character, a field label, an e-mail address or a          *)
(* pseudonym.  Two word pieces that are adjacent with no whitespace piece  *)
(* between them form one word of the text ("CONST" "RUC" "TORA" is the     *)
(* word CONSTRUCTORA), so that the regular expressions' \b and their       *)
(* unanchored lookaheads are modelled as the code computes them.  The      *)
(* strings of distinct pieces never overlap.                               *)
(***************************************************************************)
EXTENDS Integers, Sequences, FiniteSets, TLC

VARIABLES
    cache,      \* Redis: set of entries [sid, dt, kv, enc, data, exp]
    now,        \* Redis server clock, in ticks
    calls,      \* per worker: the pseudonymize_text invocation it runs
    resps,      \* the /internal/pseudonymize responses returned so far
    dresp,      \* the /internal/depseudonymize response that followed them
    ncalls,     \* number of service requests issued so far
    faults,     \* number of Redis and Vault failures so far
    client,     \* backend: PseudonymClient.session_id ("NONE" for None)
    req,        \* backend: the /archivos/procesar request being served
    llm,        \* backend: the calls made to the LLM API
    previa,     \* backend: a preview request is waiting for the service
    files,      \* backend: the files written to the outputs and temp directories
    nlp         \* spacy_detector.nlp: the NER model is loaded (not None)

backend == <<client, req, llm, previa, files>>
vars == <<cache, now, calls, resps, dresp, ncalls, faults, client, req, llm, previa,
          files, nlp>>

(***************************************************************************)
(* Pieces                                                                  *)
(***************************************************************************)
W(s)   == [k |-> "w",   s |-> s, h |-> 0]    \* a run of letters
D(s)   == [k |-> "d",   s |-> s, h |-> 0]    \* a run of digits
Pn(s)  == [k |-> "p",   s |-> s, h |-> 0]    \* one punctuation character
Lab(s) == [k |-> "lab", s |-> s, h |-> 0]    \* a field label, its ':' or '.' included
Em(s)  == [k |-> "e",   s |-> s, h |-> 0]    \* an e-mail address
SP     == [k |-> "sp",  s |-> " ",  h |-> 0]
NL     == [k |-> "sp",  s |-> "\n", h |-> 0]
TAB    == [k |-> "sp",  s |-> "\t", h |-> 0]

\* f"{prefix}_{unique_id}": the prefix and the drawn 8 hex characters (h names the draw)
MkToken(prefix, h) == [k |-> "tok", s |-> prefix, h |-> h]

IsWs(p) == p.k = "sp"

\* str(uuid.uuid4()) at draw h
Uuid4(h) ==
    CASE h = 1 -> "3f2a9c01-7b4d-4e1a-9c3f-0123456789ab"
      [] h = 2 -> "b76dc0ee-15a8-4f60-8d2e-fedcba987654"
      [] h = 3 -> "0d15ea5e-c0de-4bad-a5e5-5ca1ab1e0000"
      [] OTHER -> "ffffffff-ffff-4fff-bfff-ffffffffffff"

UpperChar(ch) ==
    CASE ch = "a" -> "A" [] ch = "b" -> "B" [] ch = "c" -> "C"
      [] ch = "d" -> "D" [] ch = "e" -> "E" [] ch = "f" -> "F"
      [] OTHER -> ch

RECURSIVE UpperChars(_)
\* str.upper() of the characters of a uuid
UpperChars(str) ==
    IF str = "" THEN ""
    ELSE UpperChar(SubSeq(str, 1, 1)) \o UpperChars(SubSeq(str, 2, Len(str)))

\* Upper-case, title-case and lower-case spelling of the letter runs the texts use.
Lexicon ==
    { <<"JUAN", "Juan", "juan">>, <<"PEREZ", "Perez", "perez">>,
      <<"LOPEZ", "Lopez", "lopez">>, <<"SANTOS", "Santos", "santos">>,
      <<"ORELLANA", "Orellana", "orellana">>, <<"ADRIAN", "Adrian", "adrian">>,
      <<"ALEXANDER", "Alexander", "alexander">>, <<"RADIO", "Radio", "radio">>,
      <<"CONST", "Const", "const">>, <<"TORA", "Tora", "tora">>,
      <<"RUC", "Ruc", "ruc">>, <<"CEDULA", "Cedula", "cedula">>,
      <<"REPRESENTANTE", "Representante", "representante">>,
      <<"CIUDAD", "Ciudad", "ciudad">>, <<"PROVINCIA", "Provincia", "provincia">>,
      <<"CORREO", "Correo", "correo">>, <<"ARCOTEL", "Arcotel", "arcotel">>,
      <<"QUITO", "Quito", "quito">>, <<"FIRMA", "Firma", "firma">>,
      <<"Y", "Y", "y">>, <<"CASA", "Casa", "casa">>, <<"LEY", "Ley", "ley">>,
      <<"REGISTRO", "Registro", "registro">>, <<"OFICIAL", "Oficial", "oficial">>,
      <<"UNIDAD", "Unidad", "unidad">>, <<"AGENCIA", "Agencia", "agencia">>,
      <<"PRESTADOR O CONCESIONARIO:", "Prestador O Concesionario:", "prestador o concesionario:">>,
      <<"REPRESENTANTE LEGAL:", "Representante Legal:", "representante legal:">>,
      <<"DIRECCION:", "Direccion:", "direccion:">>,
      <<"NOMBRE", "Nombre", "nombre">> }

Spellings(s) == {t \in Lexicon : s = t[1] \/ s = t[2] \/ s = t[3]}
\* str.lower() / re.IGNORECASE
Lower(s) == IF Spellings(s) = {} THEN s ELSE (CHOOSE t \in Spellings(s) : TRUE)[3]
\* str.upper()
Upper(s) == IF Spellings(s) = {} THEN s ELSE (CHOOSE t \in Spellings(s) : TRUE)[1]
\* str.title()
Title(s) == IF Spellings(s) = {} THEN s ELSE (CHOOSE t \in Spellings(s) : TRUE)[2]
\* str.isupper() and str.isalpha() of a letter run
IsUpperAlpha(p) == p.k = "w" /\ \E t \in Lexicon : p.s = t[1]

\* the characters of a pseudonym: prefix, '_' and 8 hex characters
HexChars == 8

\* unique_id = str(uuid.uuid4())[:8].upper(); return f"{prefix}_{unique_id}"
generate_pseudonym(prefix, h) ==
    prefix \o "_" \o UpperChars(SubSeq(Uuid4(h), 1, HexChars))

\* the characters of a pseudonym piece
Cadena(tok) == generate_pseudonym(tok.s, tok.h)
PieceLen(p) == IF p.k = "tok" THEN Len(p.s) + 1 + HexChars ELSE Len(p.s)

RECURSIVE CharLen(_)
CharLen(t) == IF t = <<>> THEN 0 ELSE PieceLen(Head(t)) + CharLen(Tail(t))

\* \w at the first / last character of a piece
WordStart(p) == p.k \in {"w", "d", "tok", "e", "lab"}
WordEnd(p)   == p.k \in {"w", "d", "tok", "e"}
\* \b just before piece i of t, and just after piece j of t
BoundaryBefore(t, i) == WordStart(t[i]) # (i > 1 /\ WordEnd(t[i - 1]))
BoundaryAfter(t, j)  == WordEnd(t[j]) # (j < Len(t) /\ WordStart(t[j + 1]))

(***************************************************************************)
(* String functions of pseudonymization.py                                 *)
(***************************************************************************)
RECURSIVE LStrip(_)
LStrip(t) == IF t # <<>> /\ IsWs(Head(t)) THEN LStrip(Tail(t)) ELSE t

RECURSIVE RStrip(_)
RStrip(t) == IF t # <<>> /\ IsWs(t[Len(t)]) THEN RStrip(SubSeq(t, 1, Len(t) - 1)) ELSE t

\* str.strip()
Strip(t) == RStrip(LStrip(t))

RECURSIVE CollapseWs(_)
\* re.sub(r'\s+', ' ', t)
CollapseWs(t) ==
    IF t = <<>> THEN <<>>
    ELSE IF IsWs(Head(t)) THEN <<SP>> \o CollapseWs(LStrip(t))
    ELSE <<Head(t)>> \o CollapseWs(Tail(t))

normalizar_espacios(texto) == CollapseWs(Strip(texto))

RECURSIVE SplitWs(_, _)
\* str.split(): the maximal runs of non-whitespace pieces; cur is the run being read
SplitWs(t, cur) ==
    IF t = <<>> THEN (IF cur = <<>> THEN <<>> ELSE <<cur>>)
    ELSE IF IsWs(Head(t))
         THEN (IF cur = <<>> THEN <<>> ELSE <<cur>>) \o SplitWs(Tail(t), <<>>)
         ELSE SplitWs(Tail(t), Append(cur, Head(t)))

RECURSIVE JoinSp(_)
\* ' '.join(words)
JoinSp(ws) ==
    IF ws = <<>> THEN <<>>
    ELSE IF Len(ws) = 1 THEN ws[1]
    ELSE ws[1] \o <<SP>> \o JoinSp(Tail(ws))

RECURSIVE Dedup5(_, _)
\* variaciones_unicas: first occurrences, of at least 5 characters
Dedup5(vs, seen) ==
    IF vs = <<>> THEN seen
    ELSE IF (\A i \in 1..Len(seen) : seen[i] # Head(vs)) /\ CharLen(Head(vs)) >= 5
         THEN Dedup5(Tail(vs), Append(seen, Head(vs)))
         ELSE Dedup5(Tail(vs), seen)

generar_variaciones_nombre(nombre) ==
    LET nombre_limpio == normalizar_espacios(nombre)
        palabras == SplitWs(nombre_limpio, <<>>)
        n == Len(palabras)
        apellidos == SubSeq(palabras, 1, 2)
        nombres == SubSeq(palabras, 3, n)
        variaciones ==
            IF n >= 4 THEN
                << nombre_limpio, JoinSp(nombres \o apellidos), JoinSp(apellidos),
                   JoinSp(nombres), apellidos[1], nombres[1] >>
            ELSE IF n = 3 THEN
                << nombre_limpio,
                   JoinSp(<<palabras[3], palabras[1], palabras[2]>>),
                   JoinSp(<<palabras[1], palabras[2]>>),
                   JoinSp(<<palabras[2], palabras[3], palabras[1]>>),
                   JoinSp(<<palabras[2], palabras[3]>>) >>
            ELSE IF n = 2 THEN
                << nombre_limpio, JoinSp(<<palabras[2], palabras[1]>>) >>
            ELSE << nombre_limpio >>
    IN  Dedup5(variaciones, <<>>)

RECURSIVE InsertByLen(_, _)
\* v placed after every element at least as long as it (sorted is stable)
InsertByLen(sorted, v) ==
    IF sorted = <<>> THEN <<v>>
    ELSE IF CharLen(Head(sorted)) >= CharLen(v)
         THEN <<Head(sorted)>> \o InsertByLen(Tail(sorted), v)
         ELSE <<v>> \o sorted

RECURSIVE SortByLenDesc(_, _)
\* sorted(variaciones, key=len, reverse=True)
SortByLenDesc(vs, acc) ==
    IF vs = <<>> THEN acc ELSE SortByLenDesc(Tail(vs), InsertByLen(acc, Head(vs)))

\* one escaped character run of the pattern against one piece, under re.IGNORECASE
SameFold(p, q) == p.k = q.k /\ p.h = q.h /\ Lower(p.s) = Lower(q.s)

RECURSIVE MatchFrom(_, _, _, _)
\* the pattern pat[k..] matched at t[i..]: the index of the last piece matched, or 0.
\* A space of the pattern is \s+.
MatchFrom(t, i, pat, k) ==
    IF k > Len(pat) THEN i - 1
    ELSE IF i > Len(t) THEN 0
    ELSE IF pat[k] = SP
         THEN IF IsWs(t[i])
              THEN LET rest == LStrip(SubSeq(t, i, Len(t)))
                   IN  MatchFrom(t, Len(t) - Len(rest) + 1, pat, k + 1)
              ELSE 0
    ELSE IF SameFold(pat[k], t[i]) THEN MatchFrom(t, i + 1, pat, k + 1)
    ELSE 0

\* r'\b' + variacion_flexible + r'\b' matched at piece i: the last piece matched, or 0
MatchVariacion(t, i, variacion) ==
    IF ~BoundaryBefore(t, i) THEN 0
    ELSE LET j == MatchFrom(t, i, variacion, 1)
         IN  IF j >= i /\ BoundaryAfter(t, j) THEN j ELSE 0

RECURSIVE SubVariacion(_, _, _, _)
\* re.sub(patron, pseudonimo, texto, flags=re.IGNORECASE) from piece i on:
\* <<text, number of matches>>
SubVariacion(t, i, variacion, pseudonimo) ==
    IF i > Len(t) THEN <<(<<>>), 0>>
    ELSE LET j == MatchVariacion(t, i, variacion)
         IN  IF j # 0
             THEN LET r == SubVariacion(t, j + 1, variacion, pseudonimo)
                  IN  << <<pseudonimo>> \o r[1], r[2] + 1 >>
             ELSE LET r == SubVariacion(t, i + 1, variacion, pseudonimo)
                  IN  << <<t[i]>> \o r[1], r[2] >>

RECURSIVE ReemplazarOrdenadas(_, _, _)
ReemplazarOrdenadas(texto, variaciones_ordenadas, pseudonimo) ==
    IF variaciones_ordenadas = <<>> THEN <<texto, 0>>
    ELSE LET r == SubVariacion(texto, 1, Head(variaciones_ordenadas), pseudonimo)
             s == ReemplazarOrdenadas(r[1], Tail(variaciones_ordenadas), pseudonimo)
         IN  <<s[1], r[2] + s[2]>>

RECURSIVE Halladas(_, _, _)
\* the variations that had matches when their turn came (the ones logged as
\* replaced by the loop)
Halladas(texto, variaciones_ordenadas, pseudonimo) ==
    IF variaciones_ordenadas = <<>> THEN {}
    ELSE LET r == SubVariacion(texto, 1, Head(variaciones_ordenadas), pseudonimo)
         IN  (IF r[2] > 0 THEN {Head(variaciones_ordenadas)} ELSE {})
                 \cup Halladas(r[1], Tail(variaciones_ordenadas), pseudonimo)

\* <<texto_resultado, total_reemplazos>>
buscar_y_reemplazar_variaciones(texto, variaciones, pseudonimo) ==
    ReemplazarOrdenadas(texto, SortByLenDesc(variaciones, <<>>), pseudonimo)

\* v occurs in t at piece i, character for character
OccursAt(t, i, v) == i + Len(v) - 1 <= Len(t) /\ SubSeq(t, i, i + Len(v) - 1) = v

\* "v in t"
Contains(t, v) == \E i \in 1..Len(t) : OccursAt(t, i, v)

\* the first place where the characters x occur in the characters c, or 0
PrimeraEn(c, x) ==
    LET lugares == {j \in 1..(Len(c) - Len(x) + 1) : SubSeq(c, j, j + Len(x) - 1) = x}
    IN  IF lugares = {} THEN 0 ELSE CHOOSE j \in lugares : \A q \in lugares : j <= q

RECURSIVE ReplaceChars(_, _, _)
\* str.replace(x, new) on the characters c of one pseudonym: what is left of
\* the pseudonym is plain word characters
ReplaceChars(c, x, new) ==
    LET j == PrimeraEn(c, x)
    IN  IF j = 0 THEN (IF c = "" THEN <<>> ELSE <<W(c)>>)
        ELSE (IF j > 1 THEN <<W(SubSeq(c, 1, j - 1))>> ELSE <<>>) \o new
                 \o ReplaceChars(SubSeq(c, j + Len(x), Len(c)), x, new)

\* v, a single run of letters or digits, occurs inside the pseudonym tok
EnToken(tok, v) ==
    /\ tok.k = "tok" /\ Len(v) = 1 /\ v[1].k \in {"w", "d"}
    /\ PrimeraEn(Cadena(tok), v[1].s) # 0

RECURSIVE ReplaceFrom(_, _, _, _)
ReplaceFrom(t, i, v, new) ==
    IF i > Len(t) THEN <<>>
    ELSE IF OccursAt(t, i, v) THEN new \o ReplaceFrom(t, i + Len(v), v, new)
    ELSE IF EnToken(t[i], v)
         THEN ReplaceChars(Cadena(t[i]), v[1].s, new) \o ReplaceFrom(t, i + 1, v, new)
    ELSE <<t[i]>> \o ReplaceFrom(t, i + 1, v, new)

\* str.replace(v, new); v is never empty
StrReplace(t, v, new) == ReplaceFrom(t, 1, v, new)

(***************************************************************************)
(* Capa 1: structured data (PATTERNS)                                      *)
(***************************************************************************)
\* a detection: the layer that made it, the data_type of its cache key, the
\* pseudonym prefix, the value to bind and (Capa 1.5) the variants to replace
Cand(layer, dt, prefix, value, variaciones) ==
    [layer |-> layer, dt |-> dt, prefix |-> prefix, value |-> value,
     variaciones |-> variaciones]

Patterns == <<"ruc", "cedula", "email", "telefono", "direccion_interseccion">>

PrefixSinCedula(data_type) ==
    CASE data_type = "ruc" -> "RUC"
      [] data_type = "email" -> "EMAIL"
      [] data_type = "telefono" -> "TELEFONO"
      [] data_type = "direccion_interseccion" -> "DIRECCION"
      [] OTHER -> "PSN"

prefix_map(data_type) ==
    CASE data_type = "ruc" -> "RUC"
      [] data_type = "cedula" -> "CEDULA"
      [] data_type = "email" -> "EMAIL"
      [] data_type = "telefono" -> "TELEFONO"
      [] data_type = "direccion_interseccion" -> "DIRECCION"
      [] OTHER -> "PSN"

OptWs(t, i) == IF i <= Len(t) /\ IsWs(t[i]) THEN i + 1 ELSE i
\* \s+ at piece i: the piece after the run, or 0
SkipWs1(t, i) ==
    IF i <= Len(t) /\ IsWs(t[i])
    THEN Len(t) - Len(LStrip(SubSeq(t, i, Len(t)))) + 1 ELSE 0

\* (?:0)[2-9][0-9]{6,8} on a whole run of digits
TelefonoDigits(s) ==
    /\ Len(s) \in 8..10
    /\ SubSeq(s, 1, 1) = "0"
    /\ SubSeq(s, 2, 2) \in {"2", "3", "4", "5", "6", "7", "8", "9"}

\* (?:\s?/\s?[0-9]{7,10})? after piece i: the last piece of the group, or 0
TelefonoExt(t, i) ==
    LET a == OptWs(t, i + 1)
        b == OptWs(t, a + 1)
    IN  IF /\ a <= Len(t) /\ t[a] = Pn("/")
           /\ b <= Len(t) /\ t[b].k = "d" /\ Len(t[b].s) \in 7..10
           /\ BoundaryAfter(t, b)
        THEN b ELSE 0

\* [A-Z0-9]+ : a word made of upper-case letter runs and digit runs
IsUpperOrDigit(p) == IsUpperAlpha(p) \/ p.k = "d"

RECURSIVE RunEnd(_, _, _)
\* the last piece of the longest run of [A-Z0-9] (or [A-Z0-9\-], with dash) from i
RunEnd(t, i, dash) ==
    IF i <= Len(t) /\ (IsUpperOrDigit(t[i]) \/ (dash /\ t[i] = Pn("-")))
    THEN RunEnd(t, i + 1, dash) ELSE i - 1

Edificaciones == {"CASA", "EDIFICIO", "PISO", "DEPARTAMENTO", "LOCAL"}

RECURSIVE LastBoundary(_, _, _)
\* greedy [A-Z0-9\-]+\b : the last piece j in i..hi with \b after it, or 0
LastBoundary(t, i, hi) ==
    IF hi < i THEN 0
    ELSE IF BoundaryAfter(t, hi) THEN hi ELSE LastBoundary(t, i, hi - 1)

DireccionInterseccion(t, i) ==
    LET e1 == RunEnd(t, i, FALSE)
        y  == SkipWs1(t, e1 + 1)
        a  == IF y = 0 THEN 0 ELSE SkipWs1(t, y + 1)
        e2 == IF a = 0 THEN 0 ELSE RunEnd(t, a, FALSE)
        c  == IF a = 0 THEN 0 ELSE SkipWs1(t, e2 + 2)
        d  == IF c = 0 THEN 0 ELSE SkipWs1(t, c + 1)
    IN  IF /\ e1 >= i /\ y # 0 /\ y <= Len(t) /\ t[y] = W("Y")
           /\ a # 0 /\ e2 >= a /\ e2 + 1 <= Len(t) /\ t[e2 + 1] = Pn(",")
           /\ c # 0 /\ c <= Len(t) /\ t[c].k = "w" /\ t[c].s \in Edificaciones
           /\ d # 0
        THEN LastBoundary(t, d, RunEnd(t, d, TRUE))
        ELSE 0

\* the pattern of data_type matched at piece i: the last piece matched, or 0
PatternMatch(data_type, t, i) ==
    IF ~BoundaryBefore(t, i) \/ ~WordStart(t[i]) THEN 0
    ELSE CASE data_type = "ruc" ->
                IF t[i].k = "d" /\ Len(t[i].s) = 13 /\ BoundaryAfter(t, i) THEN i ELSE 0
           [] data_type = "cedula" ->
                IF t[i].k = "d" /\ Len(t[i].s) = 10 /\ BoundaryAfter(t, i) THEN i ELSE 0
           [] data_type = "email" ->
                IF t[i].k = "e" /\ BoundaryAfter(t, i) THEN i ELSE 0
           [] data_type = "telefono" ->
                IF t[i].k = "d" /\ TelefonoDigits(t[i].s)
                THEN IF TelefonoExt(t, i) # 0 THEN TelefonoExt(t, i)
                     ELSE IF BoundaryAfter(t, i) THEN i ELSE 0
                ELSE 0
           [] data_type = "direccion_interseccion" -> DireccionInterseccion(t, i)

RECURSIVE FindAll(_, _, _)
\* re.finditer(pattern, text): the matched values, left to right
FindAll(data_type, t, i) ==
    IF i > Len(t) THEN <<>>
    ELSE LET j == PatternMatch(data_type, t, i)
         IN  IF j # 0
             THEN <<Strip(SubSeq(t, i, j))>> \o FindAll(data_type, t, j + 1)
             ELSE FindAll(data_type, t, i + 1)

RECURSIVE Capa1From(_, _)
Capa1From(text, n) ==
    IF n > Len(Patterns) THEN <<>>
    ELSE LET data_type == Patterns[n]
             found == FindAll(data_type, text, 1)
         IN  [m \in 1..Len(found) |->
                 Cand("regex", data_type, prefix_map(data_type), found[m], <<>>)]
             \o Capa1From(text, n + 1)

Capa1(text) == Capa1From(text, 1)

(***************************************************************************)
(* is_exception                                                            *)
(***************************************************************************)
EXCEPCIONES ==
    { "ARCOTEL", "CAFI", "CTDG", "CCON", "DEDA", "CTRP", "CADF",
      "QUITO", "GUAYAQUIL", "CUENCA", "AMBATO", "RIOBAMBA", "LOJA",
      "MACHALA", "PORTOVIEJO", "MANTA", "SANTO DOMINGO", "ESMERALDAS", "IBARRA",
      "PICHINCHA", "GUAYAS", "AZUAY", "TUNGURAHUA", "CHIMBORAZO",
      "MANABÍ", "EL ORO", "IMBABURA" }

FRASES_EXCLUIDAS ==
    { <<W("ley"), SP, W("orgánica"), SP, W("de"), SP, W("telecomunicaciones")>>,
      <<W("código"), SP, W("orgánico"), SP, W("administrativo")>>,
      <<W("registro"), SP, W("oficial")>>,
      <<W("agencia"), SP, W("de"), SP, W("regulación"), SP, W("y"), SP, W("control")>>,
      <<W("sistema"), SP, W("de"), SP, W("gestión"), SP, W("documental")>> }

palabras_institucionales ==
    { "ARCOTEL", "Dirección", "Coordinación", "Unidad", "Reglamento", "Ley",
      "Código", "Estatuto", "Ministerio", "Secretaría", "Agencia" }

RECURSIVE UpperStr(_)
\* text.upper() as one string
UpperStr(t) == IF t = <<>> THEN "" ELSE Upper(Head(t).s) \o UpperStr(Tail(t))

\* text.lower()
LowerSeq(t) == [i \in 1..Len(t) |-> [t[i] EXCEPT !.s = Lower(t[i].s)]]

is_exception(text) ==
    LET text_clean == Strip(text)
    IN  \/ UpperStr(text_clean) \in EXCEPCIONES
        \/ \E frase \in FRASES_EXCLUIDAS : Contains(LowerSeq(text_clean), frase)
        \/ \E i \in 1..Len(text_clean) : text_clean[i].s \in palabras_institucionales

(***************************************************************************)
(* Capa 1.5: names and address of the header                               *)
(***************************************************************************)
HeaderChars == 1500

RECURSIVE TakeChars(_, _)
\* text[:n], cut at the last piece that fits
TakeChars(t, n) ==
    IF t = <<>> \/ PieceLen(Head(t)) > n THEN <<>>
    ELSE <<Head(t)>> \o TakeChars(Tail(t), n - PieceLen(Head(t)))

StartsWith(s, pre) == Len(s) >= Len(pre) /\ SubSeq(s, 1, Len(pre)) = pre

Contextos == <<"prestador", "representante", "direccion">>

\* the label that opens the field, under re.IGNORECASE
EsEtiqueta(contexto, p) ==
    /\ p.k = "lab"
    /\ CASE contexto = "prestador" ->
              Lower(p.s) \in {"prestador o concesionario:",
                              "poseedor o no de título habilitante:"}
         [] contexto = "representante" -> Lower(p.s) = "representante legal:"
         [] contexto = "direccion" -> Lower(p.s) \in {"direccion:", "dirección:"}

\* the alternatives of the lookahead (?=...), matched anywhere a piece starts
Paradas(contexto) ==
    CASE contexto = "prestador" -> {"representante", "cédula", "cedula", "ruc"}
      [] contexto = "representante" -> {"cédula", "cedula", "ruc"}
      [] contexto = "direccion" -> {"ciudad", "provincia", "correo"}

\* the lookahead holds at the start of piece j
ParadaEn(contexto, t, j) ==
    IF j > Len(t) THEN contexto = "direccion"
    ELSE /\ t[j].k \in {"w", "lab"}
         /\ \E parada \in Paradas(contexto) : StartsWith(Lower(t[j].s), parada)

\* the character class of the captured group
EnClase(contexto, p) ==
    \/ p.k \in {"w", "d", "sp"}
    \/ p.k = "p" /\ p.s \in {"-", ".", "&", ","}
    \/ p.k = "p" /\ p.s = "/" /\ contexto = "direccion"

RECURSIVE FinCaptura(_, _, _)
\* the first piece after j - 1 where the lazy group may stop; 0 when a
\* character outside the class comes first
FinCaptura(contexto, t, j) ==
    IF ParadaEn(contexto, t, j) THEN j
    ELSE IF j > Len(t) \/ ~EnClase(contexto, t[j]) THEN 0
    ELSE FinCaptura(contexto, t, j + 1)

\* group(1) of the pattern matched at the label t[l], <<>> for an empty
\* group; <<"no">> when the pattern does not match there
Captura(contexto, t, l) ==
    LET i0 == Len(t) - Len(LStrip(SubSeq(t, l + 1, Len(t)))) + 1
    IN  IF i0 > l + 1 /\ ParadaEn(contexto, t, i0) THEN <<>>
        ELSE IF i0 > Len(t) \/ ~EnClase(contexto, t[i0]) THEN <<"no">>
        ELSE LET j == FinCaptura(contexto, t, i0 + 1)
             IN  IF j = 0 THEN <<"no">> ELSE SubSeq(t, i0, j - 1)

RECURSIVE BuscarEncabezado(_, _, _)
\* re.search(patron, encabezado_normalizado): group(1) of the first match
BuscarEncabezado(contexto, t, l) ==
    IF l > Len(t) THEN <<"no">>
    ELSE IF EsEtiqueta(contexto, t[l]) /\ Captura(contexto, t, l) # <<"no">>
         THEN Captura(contexto, t, l)
    ELSE BuscarEncabezado(contexto, t, l + 1)

RECURSIVE StripChars(_, _)
\* str.strip(chars) / re.sub('[chars]+$', '') for single-character pieces
StripChars(t, chars) ==
    IF t # <<>> /\ Head(t).s \in chars THEN StripChars(Tail(t), chars)
    ELSE IF t # <<>> /\ t[Len(t)].s \in chars
         THEN StripChars(SubSeq(t, 1, Len(t) - 1), chars)
    ELSE t

RECURSIVE RStripChars(_, _)
RStripChars(t, chars) ==
    IF t # <<>> /\ t[Len(t)].s \in chars
    THEN RStripChars(SubSeq(t, 1, Len(t) - 1), chars) ELSE t

NombreLimpio(captura) ==
    RStripChars(StripChars(normalizar_espacios(Strip(captura)), {"."}),
                {" ", "\n", "\t", ",", "-", "."})

RECURSIVE Capa15From(_, _)
Capa15From(text, n) ==
    IF n > Len(Contextos) THEN <<>>
    ELSE LET contexto == Contextos[n]
             encabezado_normalizado == CollapseWs(TakeChars(text, HeaderChars))
             match == BuscarEncabezado(contexto, encabezado_normalizado, 1)
             nombre_limpio == NombreLimpio(match)
         IN  (IF match # <<"no">> /\ CharLen(nombre_limpio) >= 10
              THEN << Cand("encabezado", "nombre_encabezado_" \o contexto,
                           IF contexto = "direccion" THEN "DIRECCION" ELSE "NOMBRE",
                           nombre_limpio,
                           IF contexto = "direccion" THEN <<nombre_limpio>>
                           ELSE generar_variaciones_nombre(nombre_limpio)) >>
              ELSE <<>>)
             \o Capa15From(text, n + 1)

Capa15(text) == Capa15From(text, 1)

(***************************************************************************)
(* Capa 2: spaCy NER (spacy_detector.py)                                   *)
(***************************************************************************)
SIGLAS_CONOCIDAS ==
    { "ARCOTEL", "SAI", "GFC", "CTDG", "CCON", "DEDA", "CTRP", "CADF",
      "RUC", "LOT", "COA", "USD", "ROTH", "TH", "PAS", "NER", "IA", "AI",
      "PDF", "HTML", "API", "HTTP", "HTTPS", "URL", "XML", "JSON",
      "CAFI", "SGD", "CZ2", "QUITO", "GUAYAQUIL", "CUENCA" }

Puntuacion == {".", ",", ";", ":", "(", ")", "[", "]", "{", "}"}

\* one whitespace-separated word of the text, normalised
NormalizarPalabra(palabra) ==
    LET palabra_limpia == StripChars(palabra, Puntuacion)
        \* palabra[len(palabra_limpia):]
        sufijo == SubSeq(palabra, Len(palabra_limpia) + 1, Len(palabra))
    IN  IF palabra_limpia = <<>> THEN palabra
        ELSE IF Len(palabra_limpia) = 1 /\ palabra_limpia[1].s \in SIGLAS_CONOCIDAS
             THEN palabra
        ELSE IF Len(palabra_limpia) = 1 /\ palabra_limpia[1].k = "lab"
             THEN <<[palabra_limpia[1] EXCEPT !.s = Title(@)]>>
        ELSE IF /\ \A i \in 1..Len(palabra_limpia) : IsUpperAlpha(palabra_limpia[i])
                /\ CharLen(palabra_limpia) > 2
             THEN [i \in 1..Len(palabra_limpia) |->
                      W(IF i = 1 THEN Title(palabra_limpia[i].s)
                        ELSE Lower(palabra_limpia[i].s))] \o sufijo
        ELSE palabra

normalizar_mayusculas(texto) ==
    LET palabras == SplitWs(texto, <<>>)
    IN  JoinSp([i \in 1..Len(palabras) |-> NormalizarPalabra(palabras[i])])

palabras_no_nombre ==
    { "dirección", "coordinación", "unidad", "técnica", "administrativa",
      "financiera", "gestión", "control", "registro", "agencia",
      "ministerio", "secretaría", "departamento", "división",
      "ley", "reglamento", "código", "estatuto", "manual",
      "servicio", "sistema", "procedimiento", "proceso",
      "arcotel", "telecomunicaciones", "títulos", "habilitantes",
      "orgánica", "administrativo", "sancionador", "certificación",
      "remisión", "elaborar", "certifico", "certificar", "quinta",
      "documental", "quipux", "equinoccial", "provincia" }

verbos ==
    { "elaborar", "certificar", "certifico", "remitir", "enviar",
      "solicitar", "aprobar", "rechazar", "validar", "verificar" }

conectores == {"ing", "dr", "sr", "sra", "ab", "de", "la", "y"}

es_nombre_real(texto) ==
    LET texto_clean == Strip(texto)
        palabras == SplitWs(texto_clean, <<>>)
    IN  /\ \A i \in 1..Len(texto) : Lower(texto[i].s) \notin palabras_no_nombre
        /\ \A i \in 1..Len(texto) : Lower(texto[i].s) \notin verbos
        /\ Len(palabras) >= 2
        /\ Len(palabras) <= 5
        /\ CharLen(texto_clean) >= 10
        /\ CharLen(texto_clean) <= 60
        /\ \A i \in 1..Len(texto_clean) : texto_clean[i].s \notin {"\n", "\t"}
        /\ \A i \in 1..Len(palabras) :
              LET palabra_limpia == StripChars(palabras[i], {".", ",", ";", ":"})
              IN  \/ CharLen(palabra_limpia) >= 3
                  \/ /\ Len(palabra_limpia) = 1
                     /\ Lower(palabra_limpia[1].s) \in conectores

\* a capitalised word of the normalised text that is not a field name
EsPalabraNombre(t, i) ==
    /\ t[i].k = "w" /\ \E l \in Lexicon : t[i].s = l[2] /\ l[2] # l[1]
    /\ BoundaryBefore(t, i) /\ BoundaryAfter(t, i)
    /\ ~(i < Len(t) /\ t[i + 1] = Pn(":"))

RECURSIVE FinNombre(_, _)
\* the last word of the run of capitalised words that starts at piece i
FinNombre(t, i) ==
    IF i + 2 <= Len(t) /\ t[i + 1] = SP /\ EsPalabraNombre(t, i + 2)
    THEN FinNombre(t, i + 2) ELSE i

RECURSIVE Personas(_, _)
\* doc.ents of label PER that the statistical model can report: the maximal
\* runs of capitalised words of the normalised text
Personas(t, i) ==
    IF i > Len(t) THEN <<>>
    ELSE IF EsPalabraNombre(t, i)
         THEN LET j == FinNombre(t, i)
              IN  (IF j > i THEN <<SubSeq(t, i, j)>> ELSE <<>>) \o Personas(t, j + 1)
    ELSE Personas(t, i + 1)

RECURSIVE Elegidas(_, _, _)
\* the entities at the positions of the set elegidas, in text order
Elegidas(ents, elegidas, i) ==
    IF i > Len(ents) THEN <<>>
    ELSE (IF i \in elegidas THEN <<ents[i]>> ELSE <<>>) \o Elegidas(ents, elegidas, i + 1)

MaxEnts == 1

\* the results detectar_entidades_spacy can return for a text: up to MaxEnts
\* of the persons of the normalised text that es_nombre_real accepts, and
\* nothing when nlp is None or raises
ResultadosSpacy(texto) ==
    LET pers == Personas(normalizar_mayusculas(texto), 1)
        validas == { i \in 1..Len(pers) : es_nombre_real(pers[i]) }
    IN  { Elegidas(pers, elegidas, 1) :
             elegidas \in {e \in SUBSET validas : Cardinality(e) <= MaxEnts} }

Capa2(entidades_spacy) ==
    [i \in 1..Len(entidades_spacy) |->
        Cand("spacy", "nombre_persona", "NOMBRE",
             normalizar_espacios(Strip(entidades_spacy[i])), <<>>)]

(***************************************************************************)
(* Capa 3: signers                                                         *)
(***************************************************************************)
SignatureChars == 2000

RECURSIVE TakeLastChars(_, _)
\* text[-n:], cut at the first piece that fits
TakeLastChars(t, n) ==
    IF t = <<>> \/ PieceLen(t[Len(t)]) > n THEN <<>>
    ELSE TakeLastChars(SubSeq(t, 1, Len(t) - 1), n - PieceLen(t[Len(t)]))
         \o <<t[Len(t)]>>

patrones_firmantes ==
    <<"Elaborado por:", "Revisado por:", "Aprobado por:", "Ing.", "Econ.", "Dr.">>

EnClaseFirma(p) == p.k \in {"w", "sp"} \/ p = Pn(".")

\* (?=\n|\s{2,}) at the start of piece j
FinLinea(t, j) ==
    /\ j <= Len(t)
    /\ \/ t[j] = NL
       \/ IsWs(t[j]) /\ j + 1 <= Len(t) /\ IsWs(t[j + 1])

RECURSIVE FinFirma(_, _)
FinFirma(t, j) ==
    IF FinLinea(t, j) THEN j
    ELSE IF j > Len(t) \/ ~EnClaseFirma(t[j]) THEN 0
    ELSE FinFirma(t, j + 1)

\* the pattern of one title matched at the label t[l]: the piece after group(1), or 0
FirmaEn(titulo, t, l) ==
    LET i0 == SkipWs1(t, l + 1)
    IN  IF /\ t[l] = Lab(titulo) /\ i0 # 0 /\ i0 <= Len(t)
           /\ EnClaseFirma(t[i0])
        THEN FinFirma(t, i0 + 1) ELSE 0

RECURSIVE Firmas(_, _, _)
\* re.finditer(patron, seccion_firmas): nombre_limpio of each match
Firmas(titulo, t, l) ==
    IF l > Len(t) THEN <<>>
    ELSE LET j == FirmaEn(titulo, t, l)
         IN  IF j # 0
             THEN << StripChars(normalizar_espacios(
                        Strip(SubSeq(t, SkipWs1(t, l + 1), j - 1))), {"."}) >>
                  \o Firmas(titulo, t, j)
             ELSE Firmas(titulo, t, l + 1)

RECURSIVE Capa3From(_, _)
Capa3From(text, n) ==
    IF n > Len(patrones_firmantes) THEN <<>>
    ELSE LET found == Firmas(patrones_firmantes[n], TakeLastChars(text, SignatureChars), 1)
         IN  [m \in 1..Len(found) |->
                 Cand("firmantes", "nombre_firmante", "NOMBRE", found[m], <<>>)]
             \o Capa3From(text, n + 1)

Capa3(text) == Capa3From(text, 1)

\* every detection of a call, in the order the layers run
Detecciones(text, entidades_spacy) ==
    Capa1(text) \o Capa15(text) \o Capa2(entidades_spacy) \o Capa3(text)

(***************************************************************************)
(* Redis and Vault (redis_client.py, vault_client.py)                      *)
(***************************************************************************)
TTL_HOURS == 1
TicksPerHour == 2
ttl_seconds == TTL_HOURS * TicksPerHour

\* the key f"{session_id}:{data_type}:{value}" or f"{session_id}:reverse:{pseudonym}"
Key(sid, dt, kv) == [sid |-> sid, dt |-> dt, kv |-> kv]
KeyOf(e) == Key(e.sid, e.dt, e.kv)

\* vault encrypt: the ciphertext of a value; decrypt gives the value back
encrypt(value) == [enc |-> TRUE, data |-> value]
decrypt(ciphertext) == ciphertext.data
Plain(pseudonym) == [enc |-> FALSE, data |-> <<pseudonym>>]

\* redis setex(key, ttl, value) at server time t
redis_set(c, key, val, ttl, t) ==
    {e \in c : KeyOf(e) # key}
        \cup {[sid |-> key.sid, dt |-> key.dt, kv |-> key.kv, val |-> val, exp |-> t + ttl]}

None == [enc |-> FALSE, data |-> <<>>]

\* redis get(key): the value, None when the key is absent
redis_get(c, key) ==
    IF \E e \in c : KeyOf(e) = key
    THEN (CHOOSE e \in c : KeyOf(e) = key).val ELSE None

\* The characters of a session id; a run of characters that no pattern of the
\* model splits is kept whole
SessionChars(sid) ==
    CASE sid = "S1" -> <<"S", "1">>
      [] sid = "S2" -> <<"S", "2">>
      [] sid = "S1:ruc" -> <<"S", "1", ":", "ruc">>
      [] sid = "*" -> <<"*">>
      [] OTHER -> <<sid>>

\* The key as Redis holds it, f"{session_id}:{data_type}:{value}"
KeyString(k) == SessionChars(k.sid) \o <<":", k.dt, ":", "value">>

RECURSIVE GlobMatch(_, _)
\* Redis glob-style matching of KEYS: * matches any run of characters, ? any
\* one character, every other character itself
GlobMatch(p, s) ==
    IF p = <<>> THEN s = <<>>
    ELSE IF Head(p) = "*"
         THEN GlobMatch(Tail(p), s) \/ (s # <<>> /\ GlobMatch(p, Tail(s)))
    ELSE /\ s # <<>>
         /\ Head(p) = "?" \/ Head(p) = Head(s)
         /\ GlobMatch(Tail(p), Tail(s))

\* pattern = f"{session_id}:*"
Patron(sid) == SessionChars(sid) \o <<":", "*">>

\* keys(pattern) and delete(*keys) for the pattern f"{session_id}:*"
delete_pattern(c, sid) ==
    {e \in c : ~GlobMatch(Patron(sid), KeyString(KeyOf(e)))}

\* keys(pattern) for the pattern f"{session_id}:*"
redis_keys(c, sid) ==
    {KeyOf(e) : e \in {x \in c : GlobMatch(Patron(sid), KeyString(KeyOf(x)))}}

\* delete(*keys)
redis_delete(c, keys) == {e \in c : KeyOf(e) \notin keys}

\* the keys Redis has dropped when its clock reads t
Expire(c, t) == {e \in c : e.exp > t}

(***************************************************************************)
(* pseudonymize_text, one cache operation per step                         *)
(***************************************************************************)
\* the detection is not bound in this call: it is already in processed_values,
\* or is an exception, as the layer that made it checks
Omitida(c, processed_values) ==
    CASE c.layer \in {"regex", "spacy"} ->
            c.value \in processed_values \/ is_exception(c.value)
      [] c.layer = "firmantes" ->
            CharLen(c.value) < 5 \/ c.value \in processed_values
      [] OTHER -> FALSE

RECURSIVE Pendientes(_, _)
\* the detections left, from the first one the call will bind
Pendientes(queue, processed_values) ==
    IF queue = <<>> \/ ~Omitida(Head(queue), processed_values) THEN queue
    ELSE Pendientes(Tail(queue), processed_values)

\* mapping[pseudonym] = value
Put(mapping, pseudonym, value) ==
    {m \in mapping : m[1] # pseudonym} \cup {<<pseudonym, value>>}

\* the substitution and the bookkeeping that end the binding of detection c
Sustituir(call, c, pseudonym) ==
    IF c.layer = "encabezado"
    THEN LET r == buscar_y_reemplazar_variaciones(call.out, c.variaciones, pseudonym)
         IN  [call EXCEPT
                !.out = r[1],
                !.mapping = IF r[2] > 0 THEN Put(@, pseudonym, c.value) ELSE @,
                !.processed = IF r[2] > 0 THEN @ \cup {c.value} ELSE @,
                !.bound = @ \cup {c.value},
                !.pseudonyms = @ \cup {pseudonym},
                !.replaced = @ \cup Halladas(call.out,
                                 SortByLenDesc(c.variaciones, <<>>), pseudonym),
                !.claimed = @ \cup {[layer |-> c.layer, value |-> v] :
                                v \in {c.value} \cup Halladas(call.out,
                                    SortByLenDesc(c.variaciones, <<>>), pseudonym)},
                !.queue = Tail(Pendientes(@, call.processed)),
                !.pc = "capas"]
    ELSE [call EXCEPT
                !.out = StrReplace(@, c.value, <<pseudonym>>),
                !.mapping = Put(@, pseudonym, c.value),
                !.processed = @ \cup {c.value},
                !.bound = @ \cup {c.value},
                !.pseudonyms = @ \cup {pseudonym},
                !.replaced = IF Contains(call.out, c.value) THEN @ \cup {c.value} ELSE @,
                !.claimed = @ \cup {[layer |-> c.layer, value |-> c.value]},
                !.queue = Tail(Pendientes(@, call.processed)),
                !.pc = "capas"]

NoToken == MkToken("", 0)

IdleCall ==
    [pc |-> "idle", sid |-> "", text |-> <<>>, ents |-> <<>>, out |-> <<>>,
     mapping |-> {}, processed |-> {}, bound |-> {}, queue |-> <<>>,
     pseudonym |-> NoToken, wrote |-> {}, t0 |-> 0, keys |-> {}, antes |-> 0,
     claimed |-> {}, pseudonyms |-> {},
     replaced |-> {}]

\* the call as pseudonymize_text starts it
NewCall(sid, text, ents, t) ==
    [IdleCall EXCEPT !.pc = "capas", !.sid = sid, !.text = text, !.ents = ents,
                     !.out = text, !.queue = Detecciones(text, ents), !.t0 = t,
                     !.antes = Len(resps)]

\* the detection the call binds next, and its forward key
Actual(call) == Head(Pendientes(call.queue, call.processed))
cache_key(call) == Key(call.sid, Actual(call).dt, Actual(call).value)
reverse_key(call) == Key(call.sid, "reverse", <<call.pseudonym>>)

\* redis_get(cache_key) returned cached (None after a read error): the cached
\* pseudonym is reused, otherwise the call goes on to mint one
TrasGet(call, cached) ==
    IF cached # None THEN Sustituir(call, Actual(call), cached.data[1])
    ELSE [call EXCEPT !.pc = "mint"]

\* generate_pseudonym drew the hex digits h; encrypt and the write of the
\* reverse binding follow
TrasMint(call, h) ==
    [call EXCEPT !.pc = "forward",
                 !.pseudonym = MkToken(Actual(call).prefix, h),
                 !.wrote = @ \cup {Key(call.sid, "reverse",
                                       <<MkToken(Actual(call).prefix, h)>>)}]

\* the forward binding is written and the text substituted
TrasForward(call) ==
    [Sustituir(call, Actual(call), call.pseudonym) EXCEPT
        !.wrote = @ \cup {cache_key(call)}, !.pseudonym = NoToken]

\* the keys of the dict pseudonymize_text returns
ResultKeys == {"pseudonymized_text", "session_id", "mapping", "pseudonyms_count", "stats"}

\* the dict pseudonymize_text returns, with what the model remembers of the call
Respuesta(call, t) ==
    [sid |-> call.sid, text |-> call.text, ents |-> call.ents,
     out |-> call.out, mapping |-> call.mapping, bound |-> call.bound,
     wrote |-> call.wrote, t0 |-> call.t0, at |-> t, destroyed |-> FALSE,
     replaced |-> call.replaced, antes |-> call.antes, claimed |-> call.claimed,
     pseudonyms |-> call.pseudonyms, keys |-> ResultKeys, nlp |-> nlp]

(***************************************************************************)
(* Inputs and bounds                                                       *)
(***************************************************************************)
WORKERS == 1
MaxCalls == 2
MaxFaults == 1
MaxTime == 2
NumHex == 2
Sessions == {"S1", "S2"}

JuanPerezLopez == <<W("JUAN"), SP, W("PEREZ"), SP, W("LOPEZ")>>

\* the same person is the provider and the legal representative
TextoMismaPersona ==
    <<Lab("PRESTADOR O CONCESIONARIO:"), SP>> \o JuanPerezLopez
    \o <<NL, Lab("REPRESENTANTE LEGAL:"), SP>> \o JuanPerezLopez \o <<SP, W("RUC")>>

\* the provider's name contains the letters RUC
TextoConstructora ==
    <<Lab("PRESTADOR O CONCESIONARIO:"), SP, W("RADIO"), SP,
      W("CONST"), W("RUC"), W("TORA"), SP, W("RUC"), Pn(":"), SP, D("1791234567001")>>

\* the body names the provider by a variant of the header name
TextoVariante ==
    <<Lab("PRESTADOR O CONCESIONARIO:"), SP>> \o JuanPerezLopez
    \o <<SP, W("RUC"), NL, W("Juan"), SP, W("Perez"), Pn(".")>>

\* an identity number and a signer
TextoFirma ==
    <<W("CEDULA"), Pn(":"), SP, D("1712345678"), NL,
      Lab("Ing."), SP, W("Adrian"), SP, W("Santos"), NL>>

\* the signer of TextoFirma, written in capitals
TextoFirmaMayus ==
    <<W("CEDULA"), Pn(":"), SP, D("1712345678"), NL,
      Lab("Ing."), SP, W("ADRIAN"), SP, W("SANTOS"), NL>>

\* the provider's name begins with the name of a city, which the body of the
\* document names too
TextoExcepcion ==
    <<Lab("PRESTADOR O CONCESIONARIO:"), SP, W("QUITO"), SP, W("RADIO"), SP,
      W("JUAN"), SP, W("PEREZ"), SP, W("RUC"), NL,
      W("CIUDAD"), Pn(":"), SP, W("QUITO"), NL>>

Texts == {TextoMismaPersona, TextoConstructora, TextoVariante, TextoFirma}

\* no text of the model is longer
MaxPieces == 20

\* Settings.MAX_TEXT_LENGTH ("longitud máxima de texto a pseudonimizar",
\* 100000 unless the environment sets it), set here between the lengths of
\* the texts of the model; no code of the service reads it
MAX_TEXT_LENGTH == 40

Workers == 1..WORKERS

\* the worker processes when the WORKERS setting is raised
MaxWorkers == 2
Procesos == 1..MaxWorkers

\* no depseudonymize response since the last pseudonymize request
NoDresp == [sid |-> "", text |-> <<>>, out |-> <<>>, of |-> 0, failed |-> FALSE,
            pos |-> {}, at |-> 0]

\* no /archivos/procesar request yet
NoReq == [st |-> "none", confirmado |-> FALSE, session_id |-> "NONE", archivo |-> <<>>,
          status_code |-> 0, detail |-> {}, sid |-> "NONE",
          texto_pseudonimizado |-> <<>>,
          intento |-> 0, esperas |-> <<>>, ultimo |-> "none", error |-> "none"]

Arranque ==
    /\ cache = {}
    /\ now = 0
    /\ calls = [w \in Procesos |-> IdleCall]
    /\ resps = <<>>
    /\ dresp = NoDresp
    /\ ncalls = 0
    /\ faults = 0
    /\ client = "NONE"
    /\ req = NoReq
    /\ llm = {}
    /\ previa = FALSE
    /\ files = {}

\* the services have started and spacy.load has succeeded
Init == Arranque /\ nlp = TRUE

\* the services have started and spacy.load has failed: nlp = None
InitSinModelo == Arranque /\ nlp = FALSE

\* a worker runs one request at a time
Libre(w) == calls[w].pc \in {"idle", "done", "error", "deleted"}

\* detectar_entidades_spacy returns the empty list when nlp is None
SinModelo(ents) == nlp \/ ents = <<>>

\* POST /internal/pseudonymize reaches pseudonymize_text
ApiPseudonymize(w, sid, text, ents) ==
    /\ Libre(w)
    /\ SinModelo(ents)
    /\ ncalls < MaxCalls
    /\ calls' = [calls EXCEPT ![w] = NewCall(sid, text, ents, now)]
    /\ ncalls' = ncalls + 1
    /\ dresp' = NoDresp
    /\ UNCHANGED <<cache, now, resps, faults, backend, nlp>>

\* cached_pseudonym = redis_get(cache_key)
RedisGet(w) ==
    /\ calls[w].pc = "capas"
    /\ Pendientes(calls[w].queue, calls[w].processed) # <<>>
    /\ calls' = [calls EXCEPT ![w] = TrasGet(@, redis_get(cache, cache_key(@)))]
    /\ UNCHANGED <<cache, now, resps, dresp, ncalls, faults, backend, nlp>>

\* redis get raises: the client logs the error and returns None
RedisGetError(w) ==
    /\ calls[w].pc = "capas"
    /\ Pendientes(calls[w].queue, calls[w].processed) # <<>>
    /\ faults < MaxFaults
    /\ faults' = faults + 1
    /\ calls' = [calls EXCEPT ![w] = TrasGet(@, None)]
    /\ UNCHANGED <<cache, now, resps, dresp, ncalls, backend, nlp>>

\* generate_pseudonym, encrypt and redis_set(reverse_key, ...)
Mint(w, h) ==
    /\ calls[w].pc = "mint"
    /\ calls' = [calls EXCEPT ![w] = TrasMint(@, h)]
    /\ cache' = redis_set(cache, reverse_key(calls'[w]),
                          encrypt(Actual(calls[w]).value), ttl_seconds, now)
    /\ UNCHANGED <<now, resps, dresp, ncalls, faults, backend, nlp>>

\* encrypt or redis_set raises: the exception leaves pseudonymize_text and
\* the endpoint answers 500
MintError(w) ==
    /\ calls[w].pc \in {"mint", "forward"}
    /\ faults < MaxFaults
    /\ faults' = faults + 1
    /\ calls' = [calls EXCEPT ![w].pc = "error"]
    /\ UNCHANGED <<cache, now, resps, dresp, ncalls, backend, nlp>>

\* redis_set(cache_key, pseudonym, ...) and the substitution
SetForward(w) ==
    /\ calls[w].pc = "forward"
    /\ cache' = redis_set(cache, cache_key(calls[w]), Plain(calls[w].pseudonym),
                          ttl_seconds, now)
    /\ calls' = [calls EXCEPT ![w] = TrasForward(@)]
    /\ UNCHANGED <<now, resps, dresp, ncalls, faults, backend, nlp>>

\* the layers are done: the endpoint returns the result
Return(w) ==
    /\ calls[w].pc = "capas"
    /\ Pendientes(calls[w].queue, calls[w].processed) = <<>>
    /\ calls' = [calls EXCEPT ![w].pc = "done"]
    /\ resps' = Append(resps, Respuesta(calls[w], now))
    /\ UNCHANGED <<cache, now, dresp, ncalls, faults, backend, nlp>>

(***************************************************************************)
(* depseudonymize_text, cleanup_session, the clock                         *)
(***************************************************************************)
\* \b[A-Z]+_[A-F0-9]{8}\b matched at piece i
PseudonymAt(t, i) == t[i].k = "tok" /\ BoundaryBefore(t, i) /\ BoundaryAfter(t, i)

RECURSIVE Matches(_, _)
\* re.finditer(pseudonym_pattern, text): the positions of the matches
Matches(t, i) ==
    IF i > Len(t) THEN <<>>
    ELSE (IF PseudonymAt(t, i) THEN <<i>> ELSE <<>>) \o Matches(t, i + 1)

RECURSIVE RevertirAborta(_, _, _, _, _, _)
RevertirAborta(text, original_text, matches, sid, c, failed) ==
    IF matches = <<>> \/ Head(matches) \in failed THEN original_text
    ELSE LET pseudonym == text[Head(matches)]
             encrypted_value == redis_get(c, Key(sid, "reverse", <<pseudonym>>))
         IN  RevertirAborta(text,
                      IF encrypted_value # None
                      THEN StrReplace(original_text, <<pseudonym>>, decrypt(encrypted_value))
                      ELSE original_text,
                      Tail(matches), sid, c, failed)

RECURSIVE Revertir(_, _, _, _, _, _)
\* the loop over the matches; failed holds the positions of the matches for
\* which redis_get fails (and returns None) or decrypt raises (and is caught)
Revertir(text, original_text, matches, sid, c, failed) ==
    IF matches = <<>> THEN original_text
    ELSE LET pseudonym == text[Head(matches)]
             encrypted_value == IF Head(matches) \in failed THEN None
                                ELSE redis_get(c, Key(sid, "reverse", <<pseudonym>>))
         IN  Revertir(text,
                      IF encrypted_value # None
                      THEN StrReplace(original_text, <<pseudonym>>, decrypt(encrypted_value))
                      ELSE original_text,
                      Tail(matches), sid, c, failed)

depseudonymize_text(text, sid, c, failed) ==
    Revertir(text, text, Matches(text, 1), sid, c, failed)

\* POST /internal/depseudonymize with the text of the k-th response
ApiDepseudonymize(k, sid) ==
    /\ \A w \in Workers : Libre(w)
    /\ k \in 1..Len(resps)
    /\ dresp' = [sid |-> sid, text |-> resps[k].out,
                 out |-> depseudonymize_text(resps[k].out, sid, cache, {}),
                 of |-> k, failed |-> FALSE, pos |-> {}, at |-> now]
    /\ dresp' # dresp
    /\ UNCHANGED <<cache, now, calls, resps, ncalls, faults, backend, nlp>>

\* the same, when redis_get or decrypt raises for the pseudonym at piece i
ApiDepseudonymizeError(k, sid, i) ==
    /\ \A w \in Workers : Libre(w)
    /\ k \in 1..Len(resps)
    /\ faults < MaxFaults
    /\ i \in 1..Len(resps[k].out) /\ PseudonymAt(resps[k].out, i)
    /\ faults' = faults + 1
    /\ dresp' = [sid |-> sid, text |-> resps[k].out,
                 out |-> depseudonymize_text(resps[k].out, sid, cache, {i}),
                 of |-> k, failed |-> TRUE, pos |-> {i}, at |-> now]
    /\ UNCHANGED <<cache, now, calls, resps, ncalls, backend, nlp>>

\* DELETE /internal/session/{session_id}: cleanup_session
ApiDeleteSession(sid) ==
    /\ \A w \in Workers : Libre(w)
    /\ redis_keys(cache, sid) # {}
    /\ cache' = delete_pattern(cache, sid)
    /\ resps' = [k \in 1..Len(resps) |->
                    IF resps[k].sid = sid THEN [resps[k] EXCEPT !.destroyed = TRUE]
                    ELSE resps[k]]
    /\ UNCHANGED <<now, calls, dresp, ncalls, faults, backend, nlp>>

\* delete_pattern in a worker process, first command: keys = keys(pattern);
\* without keys nothing is deleted
DeleteKeys(w, sid) ==
    /\ Libre(w)
    /\ redis_keys(cache, sid) # {}
    /\ calls' = [calls EXCEPT ![w] = [IdleCall EXCEPT !.pc = "delete", !.sid = sid,
                                                      !.keys = redis_keys(cache, sid)]]
    /\ UNCHANGED <<cache, now, resps, dresp, ncalls, faults, backend, nlp>>

\* second command: delete(*keys); the endpoint answers "deleted"
DeleteRun(w) ==
    /\ calls[w].pc = "delete"
    /\ cache' = redis_delete(cache, calls[w].keys)
    /\ calls' = [calls EXCEPT ![w].pc = "deleted"]
    /\ resps' = [k \in 1..Len(resps) |->
                    IF resps[k].sid = calls[w].sid THEN [resps[k] EXCEPT !.destroyed = TRUE]
                    ELSE resps[k]]
    /\ UNCHANGED <<now, dresp, ncalls, faults, backend, nlp>>

\* the Redis clock advances and the keys past their TTL are gone
Tick ==
    /\ now < MaxTime
    /\ now' = now + 1
    /\ cache' = Expire(cache, now')
    /\ UNCHANGED <<calls, resps, dresp, ncalls, faults, backend, nlp>>

\* the service without failures of Redis or Vault and within one TTL
Next ==
    \/ \E w \in Workers, sid \in Sessions, text \in Texts :
          \E ents \in ResultadosSpacy(text) : ApiPseudonymize(w, sid, text, ents)
    \/ \E w \in Workers : RedisGet(w)
    \/ \E w \in Workers, h \in 1..NumHex : Mint(w, h)
    \/ \E w \in Workers : SetForward(w)
    \/ \E w \in Workers : Return(w)
    \/ \E k \in 1..MaxCalls, sid \in Sessions : ApiDepseudonymize(k, sid)
    \/ \E sid \in Sessions : ApiDeleteSession(sid)

Spec == Init /\ [][Next]_vars

\* one session of the service with Redis and Vault calls that can fail
NextFallos ==
    \/ \E w \in Workers, text \in Texts :
          \E ents \in ResultadosSpacy(text) : ApiPseudonymize(w, "S1", text, ents)
    \/ \E w \in Workers : RedisGet(w)
    \/ \E w \in Workers : RedisGetError(w)
    \/ \E w \in Workers, h \in 1..NumHex : Mint(w, h)
    \/ \E w \in Workers : MintError(w)
    \/ \E w \in Workers : SetForward(w)
    \/ \E w \in Workers : Return(w)
    \/ \E k \in 1..MaxCalls : ApiDepseudonymize(k, "S1")
    \/ \E k \in 1..MaxCalls, i \in 1..MaxPieces : ApiDepseudonymizeError(k, "S1", i)

SpecFallos == Init /\ [][NextFallos]_vars

\* documents that name an institutional exception
NextExcepciones ==
    \/ \E w \in Workers, sid \in Sessions :
          \E ents \in ResultadosSpacy(TextoExcepcion) :
              ApiPseudonymize(w, sid, TextoExcepcion, ents)
    \/ \E w \in Workers : RedisGet(w)
    \/ \E w \in Workers, h \in 1..NumHex : Mint(w, h)
    \/ \E w \in Workers : SetForward(w)
    \/ \E w \in Workers : Return(w)
    \/ \E k \in 1..MaxCalls, sid \in Sessions : ApiDepseudonymize(k, sid)

SpecExcepciones == Init /\ [][NextExcepciones]_vars

\* two documents of one session signed by the same person, whose name is
\* written in different letter case
TextosFirmas == {TextoFirma, TextoFirmaMayus}

NextFirmas ==
    \/ \E w \in Workers, text \in TextosFirmas :
          \E ents \in ResultadosSpacy(text) : ApiPseudonymize(w, "S1", text, ents)
    \/ \E w \in Workers : RedisGet(w)
    \/ \E w \in Workers, h \in 1..NumHex : Mint(w, h)
    \/ \E w \in Workers : SetForward(w)
    \/ \E w \in Workers : Return(w)

SpecFirmas == Init /\ [][NextFirmas]_vars

\* the same documents, served by a process whose NER model did not load
SpecSinModelo == InitSinModelo /\ [][NextFirmas]_vars

\* a form whose signature block still holds the placeholder NOMBRE
TextoPlantilla ==
    <<Lab("Ing."), SP, W("Adrian"), SP, W("Santos"), NL,
      Lab("Elaborado por:"), SP, W("NOMBRE"), NL>>

TextosPlantilla == {TextoFirma, TextoPlantilla}

NextPlantilla ==
    \/ \E w \in Workers, text \in TextosPlantilla :
          \E ents \in ResultadosSpacy(text) : ApiPseudonymize(w, "S1", text, ents)
    \/ \E w \in Workers : RedisGet(w)
    \/ \E w \in Workers, h \in 1..NumHex : Mint(w, h)
    \/ \E w \in Workers : SetForward(w)
    \/ \E w \in Workers : Return(w)

SpecPlantilla == Init /\ [][NextPlantilla]_vars

\* the texts sent while the clock runs and by concurrent requests
TextosCarrera == {TextoVariante, TextoFirma}

\* one session of the service while the Redis clock runs
NextReloj ==
    \/ \E w \in Workers, text \in TextosCarrera :
          \E ents \in ResultadosSpacy(text) : ApiPseudonymize(w, "S1", text, ents)
    \/ \E w \in Workers : RedisGet(w)
    \/ \E w \in Workers, h \in 1..NumHex : Mint(w, h)
    \/ \E w \in Workers : SetForward(w)
    \/ \E w \in Workers : Return(w)
    \/ \E k \in 1..MaxCalls : ApiDepseudonymize(k, "S1")
    \/ Tick

SpecReloj == Init /\ [][NextReloj]_vars

\* two worker processes serve requests for one session at the same time
NextCarrera ==
    \/ \E w \in Procesos, text \in TextosCarrera :
          \E ents \in ResultadosSpacy(text) : ApiPseudonymize(w, "S1", text, ents)
    \/ \E w \in Procesos : RedisGet(w)
    \/ \E w \in Procesos, h \in 1..NumHex : Mint(w, h)
    \/ \E w \in Procesos : SetForward(w)
    \/ \E w \in Procesos : Return(w)

SpecCarrera == Init /\ [][NextCarrera]_vars

\* requests for one session and requests to delete it, served by two worker
\* processes at the same time
NextDestruir ==
    \/ \E w \in Procesos :
          \E ents \in ResultadosSpacy(TextoFirma) :
              ApiPseudonymize(w, "S1", TextoFirma, ents)
    \/ \E w \in Procesos : RedisGet(w)
    \/ \E w \in Procesos, h \in 1..NumHex : Mint(w, h)
    \/ \E w \in Procesos : SetForward(w)
    \/ \E w \in Procesos : Return(w)
    \/ \E w \in Procesos : DeleteKeys(w, "S1")
    \/ \E w \in Procesos : DeleteRun(w)

SpecDestruir == Init /\ [][NextDestruir]_vars

\* session ids as callers may choose them: any string is accepted
SesionesLibres == {"S1", "S2", "S1:ruc", "*"}

\* requests for several sessions and requests to delete them
NextMarco ==
    \/ \E w \in Workers, sid \in SesionesLibres :
          \E ents \in ResultadosSpacy(TextoConstructora) :
              ApiPseudonymize(w, sid, TextoConstructora, ents)
    \/ \E w \in Workers : RedisGet(w)
    \/ \E w \in Workers, h \in 1..NumHex : Mint(w, h)
    \/ \E w \in Workers : SetForward(w)
    \/ \E w \in Workers : Return(w)
    \/ \E w \in Workers, sid \in SesionesLibres : DeleteKeys(w, sid)
    \/ \E w \in Workers : DeleteRun(w)

SpecMarco == Init /\ [][NextMarco]_vars

(***************************************************************************)
(* Properties of the pseudonymisation service                              *)
(***************************************************************************)
ReverseEntries(sid) == {e \in cache : e.sid = sid /\ e.dt = "reverse"}
ForwardEntries(sid) == {e \in cache : e.sid = sid /\ e.dt # "reverse"}

\* C1 (Stability): a session never holds two reverse bindings that decrypt
\* to the same real value, whichever layers bound it.
C1_Stability ==
    \A sid \in Sessions : \A e1, e2 \in ReverseEntries(sid) :
        decrypt(e1.val) = decrypt(e2.val) => e1.kv = e2.kv

\* the second of two pseudonymize calls repeats the first: same session, same
\* text, same NER result, with no key expired or destroyed since the first began
Repetida ==
    /\ Len(resps) = 2
    /\ resps[1].sid = resps[2].sid /\ resps[1].text = resps[2].text
    /\ resps[1].ents = resps[2].ents
    /\ resps[1].t0 = resps[2].at /\ ~resps[1].destroyed

\* C2 (Idempotence): a second pseudonymize(T, S) returns the text the first
\* one returned and writes no forward or reverse key that the first one had
\* not put in the cache.
C2_Idempotence ==
    Repetida => resps[2].out = resps[1].out /\ resps[2].wrote \subseteq resps[1].wrote

\* C3 (Isolation): no pseudonym has a reverse binding in two sessions, and
\* depseudonymize under another session than the one that pseudonymized the
\* text returns the text unchanged.
C3_Isolation ==
    /\ \A e1, e2 \in cache :
          e1.dt = "reverse" /\ e2.dt = "reverse" /\ e1.kv = e2.kv => e1.sid = e2.sid
    /\ dresp.of # 0 /\ dresp.sid # resps[dresp.of].sid => dresp.out = dresp.text

\* C4 (No leakage): the text a pseudonymize call returns contains no value of
\* the returned mapping and no value whose binding the call wrote or reused.
C4_NoLeakage ==
    \A k \in 1..Len(resps) :
        \A value \in resps[k].bound \cup {m[2] : m \in resps[k].mapping} :
            ~Contains(resps[k].out, value)

\* C5 (Round trip): depseudonymize of a pseudonymized text under the same
\* live session gives the original text back, up to whitespace.
C5_RoundTrip ==
    ( /\ dresp.of # 0 /\ ~dresp.failed
      /\ dresp.sid = resps[dresp.of].sid /\ ~resps[dresp.of].destroyed
      /\ resps[dresp.of].t0 = dresp.at )
    => CollapseWs(dresp.out) = CollapseWs(resps[dresp.of].text)

\* a write never replaces the real value behind an existing reverse binding
NoOverwrite ==
    \A e \in cache : \A f \in cache' :
        e.dt = "reverse" /\ KeyOf(f) = KeyOf(e) => decrypt(f.val) = decrypt(e.val)

\* C7 (Uniqueness): in a session no two distinct real values share a
\* pseudonym, and the reverse binding of a pseudonym is never overwritten by
\* a mint for another value.
C7_Uniqueness ==
    /\ [](\A sid \in Sessions : \A e1, e2 \in ForwardEntries(sid) :
             e1.val = e2.val => e1.kv = e2.kv)
    /\ [][NoOverwrite]_vars

EsPseudonimo(t) == \A i \in 1..Len(t) : t[i].k = "tok"

\* C8 (Reversibility): no key and no value of the cache holds a real value in
\* plaintext; a real value is there only as the ciphertext under a reverse key.
C8_NoPlaintext ==
    \A e \in cache :
        /\ EsPseudonimo(e.kv)
        /\ e.val.enc \/ EsPseudonimo(e.val.data)
        /\ e.val.enc => e.dt = "reverse"

\* C9 (Atomic abort): when a mint step fails the call ends in an error and
\* the cache holds no binding that the call wrote.
C9_AtomicAbort ==
    \A w \in Workers :
        calls[w].pc = "error" => \A e \in cache : KeyOf(e) \notin calls[w].wrote

\* C10 (Reverse before forward): every forward binding in the cache points
\* to a pseudonym whose reverse binding is in the cache of the same session.
C10_ReverseBeforeForward ==
    \A sid \in Sessions : \A e \in ForwardEntries(sid) :
        \E r \in ReverseEntries(sid) : r.kv = e.val.data

\* the pseudonym at piece i of the text of a depseudonymize request has a
\* reverse binding in the session, and its value was obtained at one of the
\* matches of that pseudonym at least
Resuelto(d, c, i) ==
    /\ redis_get(c, Key(d.sid, "reverse", <<d.text[i]>>)) # None
    /\ \E j \in 1..Len(d.text) :
          PseudonymAt(d.text, j) /\ d.text[j] = d.text[i] /\ j \notin d.pos

\* the same, match by match: the value was obtained at this very match
ResueltoAqui(d, c, i) ==
    /\ redis_get(c, Key(d.sid, "reverse", <<d.text[i]>>)) # None
    /\ PseudonymAt(d.text, i) /\ i \notin d.pos

RECURSIVE Parcial(_, _, _, _)
\* the text with the pseudonyms chosen by porMatch(d, c, i) replaced by their
\* real values and every other piece as it is
Parcial(d, c, i, porMatch) ==
    IF i > Len(d.text) THEN <<>>
    ELSE (IF d.text[i].k = "tok"
             /\ (IF porMatch THEN ResueltoAqui(d, c, i) ELSE Resuelto(d, c, i))
          THEN decrypt(redis_get(c, Key(d.sid, "reverse", <<d.text[i]>>)))
          ELSE <<d.text[i]>>) \o Parcial(d, c, i + 1, porMatch)

\* this step answers a depseudonymize request
Revierte == dresp' # dresp /\ dresp'.of # 0

\* C11 as stated (Partial reverse): a depseudonymize request is answered
\* whatever fails, every pseudonym whose reverse binding is missing or whose
\* read or decryption fails stays as it is, and every other one is replaced.
C11_PorMatch ==
    [][Revierte => dresp'.out = Parcial(dresp', cache, 1, TRUE)]_vars

\* C11 (Partial reverse), amended: a depseudonymize request is answered
\* whatever fails; a pseudonym stays as it is when its reverse binding is
\* missing or when the read or decryption fails at every one of its matches,
\* and is replaced by its real value at all its occurrences otherwise.
C11_PartialReverse ==
    [][Revierte => dresp'.out = Parcial(dresp', cache, 1, FALSE)]_vars

\* a read or decryption failed for one pseudonym, which is still in the
\* answer, while another pseudonym of the text was replaced
C11_Witness ==
    /\ dresp.of # 0 /\ dresp.failed
    /\ \E i \in dresp.pos : Contains(dresp.out, <<dresp.text[i]>>)
    /\ \E i \in 1..Len(dresp.text) :
          dresp.text[i].k = "tok" /\ ~Contains(dresp.out, <<dresp.text[i]>>)

\* C12 (Destroy): when a request to delete session S returns, no key of S
\* is left in the cache, whatever the other worker did in the meantime.
C12_Destroy ==
    [][\A w \in Procesos :
          calls[w].pc = "delete" /\ calls'[w].pc = "deleted"
              => redis_keys(cache', calls[w].sid) = {}]_vars

\* C13 (Session lifetime): while less than the TTL has elapsed since a
\* pseudonymize call on S began, every pseudonym of the mapping it returned,
\* minted or reused, has its reverse binding in the cache of S.
C13_SessionLifetime ==
    \A k \in 1..Len(resps) :
        now < resps[k].t0 + ttl_seconds =>
            \A m \in resps[k].mapping :
                \E e \in ReverseEntries(resps[k].sid) : e.kv = <<m[1]>>

\* C14 (Exception safety): no value that a pseudonymize call bound to a
\* pseudonym, and no string that it replaced by one (a header value, one of
\* its variations, a signer), is a value of EXCEPCIONES.
C14_ExceptionSafety ==
    \A k \in 1..Len(resps) :
        \A v \in resps[k].bound \cup resps[k].replaced :
            UpperStr(Strip(v)) \notin EXCEPCIONES

\* the entity types of the contract and the hex digits of a pseudonym
TiposToken == {"RUC", "CEDULA", "EMAIL", "TELEFONO", "DIRECCION", "NOMBRE"}
HexDigits == {"0", "1", "2", "3", "4", "5", "6", "7", "8", "9",
              "A", "B", "C", "D", "E", "F"}

\* str is TYPE_HEX8 with TYPE one of the entity types
EsTypeHex8(str) ==
    \E type \in TiposToken :
        /\ Len(str) = Len(type) + 1 + 8
        /\ SubSeq(str, 1, Len(type) + 1) = type \o "_"
        /\ \A i \in (Len(type) + 2)..Len(str) : SubSeq(str, i, i) \in HexDigits

\* the pseudonyms minted and not yet returned, returned in a mapping, or
\* held by a reverse key
Emitidos ==
    {calls[w].pseudonym : w \in {x \in Procesos : calls[x].pseudonym # NoToken}}
        \cup UNION {{m[1] : m \in resps[k].mapping} : k \in 1..Len(resps)}
        \cup {e.kv[1] : e \in {x \in cache : x.dt = "reverse"}}

\* C15 (Format stability): every pseudonym minted or returned in a mapping
\* is TYPE_HEX8, TYPE one of RUC, CEDULA, EMAIL, TELEFONO, DIRECCION, NOMBRE
\* and HEX8 eight characters of 0-9A-F, and the scan of depseudonymize_text
\* matches it.
C15_Format ==
    \A tok \in Emitidos : EsTypeHex8(Cadena(tok)) /\ PseudonymAt(<<tok>>, 1)

\* a call has returned pseudonyms of two entity types and depseudonymize has
\* restored its text
C15_Witness ==
    /\ dresp.of # 0 /\ dresp.out # dresp.text
    /\ \E m1, m2 \in resps[dresp.of].mapping :
          m1[1].s = "CEDULA" /\ m2[1].s = "NOMBRE"

(***************************************************************************)
(* Backend: preview, consent gate and extraction                           *)
(* (validacion.py, procesador.py, the extractors, pseudonym_client.py)     *)
(***************************************************************************)
\* "not session_id": None and the empty string
Falsy(session_id) == session_id \in {"NONE", ""}

SessionIds == {"NONE", ""} \cup Sessions

\* a person is named in the body only: no pattern of layers 1, 1.5 and 3
\* finds the name, the NER layer may
TextoCuerpo == <<W("Juan"), SP, W("Perez"), Pn("."), NL>>

\* the texts of the files the backend is asked to preview and to process
Archivos == {TextoConstructora, TextoCuerpo}

\* PseudonymClient.pseudonymize_text: the session of the request to the service
current_session_id(session_id, nuevo) ==
    IF ~Falsy(session_id) THEN session_id
    ELSE IF ~Falsy(client) THEN client
    ELSE nuevo

\* the session ids a request to the client can go out with: the one given,
\* the client's, or any newly generated one
Posibles(session_id) ==
    {current_session_id(session_id, nuevo) : nuevo \in Sessions}

\* the answer of the service to the request the backend is waiting for
Ultima == resps[Len(resps)]

\* POST /api/validacion/previsualizar: the text is sent to the service
\* without a session_id
Previsualizar(w, texto, ents, sid) ==
    /\ req.st \in {"none", "rejected", "done"} /\ ~previa
    /\ Libre(w)
    /\ SinModelo(ents)
    /\ ncalls < MaxCalls
    /\ sid \in Posibles("NONE")
    /\ calls' = [calls EXCEPT ![w] = NewCall(sid, texto, ents, now)]
    /\ ncalls' = ncalls + 1
    /\ previa' = TRUE
    /\ UNCHANGED <<cache, now, resps, dresp, faults, client, req, llm, files, nlp>>

\* the HTML of the preview: the pseudonymized text with every pseudonym of
\* the mapping highlighted; the values of the mapping are not used
generar_html_validacion(texto_pseudonimizado, mapping, session_id) ==
    [nombre |-> <<"validacion", session_id>>,
     mapeo |-> {},
     resaltados |-> {m[1] : m \in mapping},
     texto |-> texto_pseudonimizado]

\* the audit file of an extraction: one line "pseudonym <- original" for
\* every pair of the mapping, then the pseudonymized text
temp_file(texto_pseudonimizado, mapping, session_id_usado) ==
    [nombre |-> <<"input", session_id_usado>>,
     mapeo |-> mapping,
     resaltados |-> {},
     texto |-> texto_pseudonimizado]

\* the service has answered the preview: the client keeps the session used,
\* the HTML is written to the outputs directory and the session is returned
\* to the user; when the file cannot be written the request fails
PrevisualizarRespuesta(w, ok) ==
    /\ previa /\ calls[w].pc = "done"
    /\ ok \/ faults < MaxFaults
    /\ client' = Ultima.sid
    /\ previa' = FALSE
    /\ files' = IF ok
                THEN files \cup {generar_html_validacion(Ultima.out, Ultima.mapping,
                                                         Ultima.sid)}
                ELSE files
    /\ faults' = IF ok THEN faults ELSE faults + 1
    /\ UNCHANGED <<cache, now, calls, resps, dresp, ncalls, req, llm, nlp>>

GateSoloConfirmado(confirmado, session_id) ==
    IF ~confirmado THEN 403 ELSE 200

GateTodo403(confirmado, session_id) ==
    IF ~confirmado \/ Falsy(session_id) THEN 403 ELSE 200

\* the validation that opens procesar_archivos: the status of the answer
Gate(confirmado, session_id) ==
    IF ~confirmado THEN 403
    ELSE IF Falsy(session_id) THEN 400
    ELSE 200

\* the keys of the detail of the HTTPException the validation raises
Detail(confirmado, session_id) ==
    IF ~confirmado
    THEN {"error", "mensaje", "motivo", "pasos_requeridos", "documentacion",
          "cumplimiento_legal"}
    ELSE IF Falsy(session_id) THEN {"error", "mensaje", "ejemplo"}
    ELSE {}

\* POST /archivos/procesar arrives: it is rejected, or its file is taken up
ProcesarArchivos(confirmado, session_id, archivo) ==
    /\ req.st \in {"none", "rejected", "done"} /\ ~previa
    /\ ncalls < MaxCalls
    /\ req' = [NoReq EXCEPT
                 !.st = IF Gate(confirmado, session_id) = 200 THEN "files" ELSE "rejected",
                 !.confirmado = confirmado, !.session_id = session_id,
                 !.archivo = archivo,
                 !.status_code = Gate(confirmado, session_id),
                 !.detail = Detail(confirmado, session_id)]
    /\ UNCHANGED <<cache, now, calls, resps, dresp, ncalls, faults, client, llm, previa,
                   files, nlp>>

\* extraer_con_claude, PASO 2: the text of the file is sent to the service
\* under the session of the request
Pseudonimizar(w, ents, sid) ==
    /\ req.st = "files"
    /\ Libre(w)
    /\ SinModelo(ents)
    /\ sid \in Posibles(req.session_id)
    /\ calls' = [calls EXCEPT ![w] = NewCall(sid, req.archivo, ents, now)]
    /\ ncalls' = ncalls + 1
    /\ req' = [req EXCEPT !.st = "pseudonymizing", !.sid = sid]
    /\ UNCHANGED <<cache, now, resps, dresp, faults, client, llm, previa, files, nlp>>

\* the service has answered: the client keeps the session, the extractor
\* the pseudonymized text, and the audit file is written; a failure to
\* write it is printed and the extraction goes on
PseudonimizarRespuesta(w, ok) ==
    /\ req.st = "pseudonymizing" /\ calls[w].pc = "done"
    /\ ok \/ faults < MaxFaults
    /\ client' = Ultima.sid
    /\ req' = [req EXCEPT !.st = "pseudonymized",
                          !.texto_pseudonimizado = Ultima.out]
    /\ files' = IF ok
                THEN files \cup {temp_file(Ultima.out, Ultima.mapping, Ultima.sid)}
                ELSE files
    /\ faults' = IF ok THEN faults ELSE faults + 1
    /\ UNCHANGED <<cache, now, calls, resps, dresp, ncalls, llm, previa, nlp>>

\* the pseudonymization service fails: the extraction of the file is aborted
PseudonimizarError ==
    /\ req.st = "files"
    /\ faults < MaxFaults
    /\ faults' = faults + 1
    /\ ncalls' = ncalls + 1
    /\ req' = [req EXCEPT !.st = "done"]
    /\ UNCHANGED <<cache, now, calls, resps, dresp, client, llm, previa, files, nlp>>

\* What the LLM API answers to one messages.create: a response, the overload
\* status 529, another API error, or another API error whose text happens to
\* contain "529" (a request id, a token count)
ResultadosLLM == {"ok", "overloaded", "error", "error_con_529"}

\* The subdirectory of the file selects the extractor
extractor(archivo) ==
    IF archivo = TextoConstructora THEN "informe_tecnico" ELSE "peticion_razonada"

max_retries(tipo) == IF tipo = "informe_tecnico" THEN 3 ELSE 5

wait_time(tipo, intento) ==
    (2 ^ intento) * (IF tipo = "informe_tecnico" THEN 5 ELSE 30)

\* The test each extractor applies to the exception it caught: a substring of
\* the error text in one, the status code in the other
es_sobrecarga(tipo, resultado) ==
    IF tipo = "informe_tecnico"
    THEN resultado \in {"overloaded", "error_con_529"}
    ELSE resultado = "overloaded"

\* The request after one attempt of the retry loop
Reintento(resultado) ==
    LET tipo == extractor(req.archivo) IN
    IF resultado = "ok"
    THEN [req EXCEPT !.st = "done", !.ultimo = resultado]
    ELSE IF es_sobrecarga(tipo, resultado) /\ req.intento < max_retries(tipo) - 1
    THEN [req EXCEPT !.intento = @ + 1, !.ultimo = resultado,
                     !.esperas = Append(@, wait_time(tipo, req.intento))]
    ELSE [req EXCEPT !.st = "done", !.ultimo = resultado,
                     !.error = IF es_sobrecarga(tipo, resultado)
                               THEN "overloaded" ELSE "api"]

LlamarLLMCrudo(resultado) ==
    /\ req.st = "pseudonymized"
    /\ llm' = llm \cup {[confirmado |-> req.confirmado, session_id |-> req.session_id,
                         sid |-> req.sid, texto |-> req.archivo,
                         intento |-> req.intento]}
    /\ req' = Reintento(resultado)
    /\ UNCHANGED <<cache, now, calls, resps, dresp, ncalls, faults, client, previa,
                   files, nlp>>

\* One pass of the retry loop: client.messages.create with the pseudonymized
\* text, then break, sleep and continue, or raise
LlamarLLM(resultado) ==
    /\ req.st = "pseudonymized"
    /\ llm' = llm \cup {[confirmado |-> req.confirmado, session_id |-> req.session_id,
                         sid |-> req.sid, texto |-> req.texto_pseudonimizado,
                         intento |-> req.intento]}
    /\ req' = Reintento(resultado)
    /\ UNCHANGED <<cache, now, calls, resps, dresp, ncalls, faults, client, previa,
                   files, nlp>>

NextBackend ==
    \/ \E w \in Workers, texto \in Archivos, sid \in Sessions :
          \E ents \in ResultadosSpacy(texto) : Previsualizar(w, texto, ents, sid)
    \/ \E w \in Workers, ok \in BOOLEAN : PrevisualizarRespuesta(w, ok)
    \/ \E confirmado \in BOOLEAN, session_id \in SessionIds, archivo \in Archivos :
          ProcesarArchivos(confirmado, session_id, archivo)
    \/ \E w \in Workers, sid \in Sessions :
          \E ents \in ResultadosSpacy(req.archivo) : Pseudonimizar(w, ents, sid)
    \/ \E w \in Workers, ok \in BOOLEAN : PseudonimizarRespuesta(w, ok)
    \/ PseudonimizarError
    \/ LlamarLLM("ok")
    \/ \E w \in Workers : RedisGet(w)
    \/ \E w \in Workers, h \in 1..NumHex : Mint(w, h)
    \/ \E w \in Workers : SetForward(w)
    \/ \E w \in Workers : Return(w)

SpecBackend == Init /\ [][NextBackend]_vars

\* The extraction path against an LLM API that may answer with errors
NextReintentos ==
    \/ \E confirmado \in BOOLEAN, session_id \in SessionIds, archivo \in Archivos :
          ProcesarArchivos(confirmado, session_id, archivo)
    \/ \E w \in Workers, sid \in Sessions :
          \E ents \in ResultadosSpacy(req.archivo) : Pseudonimizar(w, ents, sid)
    \/ \E w \in Workers, ok \in BOOLEAN : PseudonimizarRespuesta(w, ok)
    \/ PseudonimizarError
    \/ \E resultado \in ResultadosLLM : LlamarLLM(resultado)
    \/ \E w \in Workers : RedisGet(w)
    \/ \E w \in Workers, h \in 1..NumHex : Mint(w, h)
    \/ \E w \in Workers : SetForward(w)
    \/ \E w \in Workers : Return(w)

SpecReintentos == Init /\ [][NextReintentos]_vars

\* the request carries the user's confirmation and a session
Permitida(r) == r.confirmado /\ ~Falsy(r.session_id)

\* this step rejects a request
Rechazo == req'.st = "rejected" /\ req' # req

C16_Siempre403 ==
    req.st = "rejected" =>
        req.status_code = 403 /\ "pasos_requeridos" \in req.detail

\* C16 (Gate status code), amended: a request that is not confirmed is
\* rejected with HTTP 403 and a body that lists the required steps; a
\* confirmed request without session_id is rejected with HTTP 400 and a body
\* that gives an example instead of the steps; no other request is rejected.
C16_GateStatus ==
    /\ req.st # "none" /\ ~req.confirmado =>
          /\ req.st = "rejected" /\ req.status_code = 403
          /\ "pasos_requeridos" \in req.detail
    /\ req.st # "none" /\ req.confirmado /\ Falsy(req.session_id) =>
          /\ req.st = "rejected" /\ req.status_code = 400
          /\ "pasos_requeridos" \notin req.detail /\ "ejemplo" \in req.detail
    /\ req.st = "rejected" => ~Permitida(req)

\* a confirmed request with an empty session_id has been answered 400 after
\* a preview gave the client a session
C16_Witness ==
    /\ req.st = "rejected" /\ req.confirmado /\ req.session_id = ""
    /\ req.status_code = 400
    /\ ~Falsy(client)

\* C17 (Mapping confidentiality): no file written by a preview or an
\* extraction holds a pair of the mapping: the real values of a mapping are
\* never written to a file by the callers of pseudonymize.
C17_MappingConfidential ==
    \A f \in files : f.mapeo = {}

\* C18 (Input cap): a pseudonymize request whose text is longer than
\* MAX_TEXT_LENGTH binds nothing and never ends in a response.
C18_InputCap ==
    /\ \A w \in Procesos :
          CharLen(calls[w].text) > MAX_TEXT_LENGTH =>
              calls[w].pc # "done" /\ calls[w].bound = {}
    /\ \A k \in 1..Len(resps) : CharLen(resps[k].text) <= MAX_TEXT_LENGTH

\* the sessions under which the service has answered a preview or an
\* extraction so far
Usadas == {resps[k].sid : k \in 1..Len(resps)}

\* C19 (Session identity): a preview, which gives the client no session_id,
\* sends its text to the service under a session that no earlier preview or
\* extraction has used.
C19_SessionIdentity ==
    [][~previa /\ previa' =>
          \A w \in Workers :
              calls'[w] # calls[w] => calls'[w].sid \notin Usadas]_vars

\* response k is of a call that began before the call of response j returned
Solapadas(j, k) == j < k /\ resps[k].antes < j

\* C20 (Serialised session): two pseudonymize calls on the same session
\* that overlap on different workers end with each real value bound to one
\* token, which both calls return: no value has different tokens in their
\* mappings.
C20_SerialisedSession ==
    \A j, k \in 1..Len(resps) :
        Solapadas(j, k) /\ resps[j].sid = resps[k].sid =>
            \A mj \in resps[j].mapping, mk \in resps[k].mapping :
                mj[2] = mk[2] => mj[1] = mk[1]

\* C21 (Previewed text is the text sent): every text sent to the LLM for a
\* request with session S is the pseudonymized text of an HTML that a preview
\* wrote under S.
C21_PreviewedIsSent ==
    \A c \in llm :
        \E f \in files :
            f.nombre = <<"validacion", c.session_id>> /\ f.texto = c.texto

\* this step sends a request to the LLM
Envia == llm' # llm

\* the request the step sends is for the file of the request being served,
\* after the service answered for that file under the request's session
TrasPseudonimizar ==
    /\ req.st = "pseudonymized"
    /\ Len(resps) > 0 /\ Ultima.text = req.archivo /\ Ultima.sid = req.sid
    /\ \E c \in llm' : llm' = llm \cup {c} /\ c.texto = Ultima.out

\* the extraction of a file is aborted because the service failed
Aborta == req.st = "files" /\ req'.st = "done"

\* C22 (Pseudonymise-before-send), as stated: an LLM request is sent only
\* after pseudonymize answered for the document in the same call, with the
\* text it returned, which is never the raw text of the document; a failed
\* pseudonymization aborts the extraction without an LLM request.
C22_NuncaCrudo ==
    [][/\ Envia => TrasPseudonimizar /\ \A c \in llm' \ llm : c.texto # req.archivo
       /\ Aborta => ~Envia]_vars

\* C22 (Pseudonymise-before-send), amended: an LLM request is sent only
\* after pseudonymize answered for the document in the same call, and its
\* text is exactly the text the service returned (the raw text when the
\* service replaced nothing); a failed pseudonymization aborts the
\* extraction without an LLM request.
C22_PseudonymizeBeforeSend ==
    [][/\ Envia => TrasPseudonimizar
       /\ Aborta => ~Envia]_vars

\* a pseudonymized text that differs from the file's has been sent for one
\* request, and the extraction of a later request was aborted
C22_Witness ==
    /\ \E c \in llm : \E k \in 1..Len(resps) :
          c.texto = resps[k].out /\ c.texto # resps[k].text
    /\ req.st = "done" /\ req.confirmado /\ faults > 0
    /\ \A c \in llm : c.texto # req.texto_pseudonimizado

\* the place of a layer in pseudonymize_text
Orden(layer) ==
    CASE layer = "regex" -> 1
      [] layer = "encabezado" -> 2
      [] layer = "spacy" -> 3
      [] layer = "firmantes" -> 4

\* the pieces <<first, last>> of the original text where a claimed value
\* stands: as its layer finds it, with re.IGNORECASE and \s+ for the header
\* layer and character for character for the others
Lugares(text, x) ==
    IF x.layer = "encabezado"
    THEN {<<i, MatchVariacion(text, i, x.value)>> :
             i \in {n \in 1..Len(text) : MatchVariacion(text, n, x.value) # 0}}
    ELSE {<<i, i + Len(x.value) - 1>> :
             i \in {n \in 1..Len(text) : OccursAt(text, n, x.value)}}

\* two claimed values are the same value or stand on a common piece of the
\* original text
SeSolapan(text, a, b) ==
    \/ a.value = b.value
    \/ \E p \in Lugares(text, a), q \in Lugares(text, b) :
          p[1] <= q[2] /\ q[1] <= p[2]

\* the detections are bound layer by layer
EnOrden(queue) ==
    \A i, j \in 1..Len(queue) :
        i < j => Orden(queue[i].layer) <= Orden(queue[j].layer)

\* C23 (Layer order and claims): a call binds its detections in the order
\* of the layers 1, 1.5, 2, 3, and no value bound or substituted by a later
\* layer is, or overlaps in the original text, a value claimed by an earlier
\* layer of the call.
C23_LayerClaims ==
    /\ \A w \in Procesos : EnOrden(calls[w].queue)
    /\ \A k \in 1..Len(resps) :
          \A a, b \in resps[k].claimed :
              Orden(a.layer) < Orden(b.layer) => ~SeSolapan(resps[k].text, a, b)

\* the data types of the forward keys that hold names
NameClass ==
    {"nombre_encabezado_prestador", "nombre_encabezado_representante",
     "nombre_persona", "nombre_firmante"}

\* C24 (Dedup case rule): in a session, two forward keys of one name-class
\* data type whose values differ only in letter case hold the same token:
\* the check made before minting found the first one.
C24_DedupCase ==
    \A e1, e2 \in cache :
        /\ e1.sid = e2.sid /\ e1.dt = e2.dt /\ e1.dt \in NameClass
        /\ LowerSeq(e1.kv) = LowerSeq(e2.kv)
        => e1.val = e2.val

\* 'pseudonyms_count' and stats['total_unique'] of a result: len(mapping)
pseudonyms_count(mapping) == Cardinality({m[1] : m \in mapping})

\* C25 (Mapping completeness): the mapping a call returns has an entry for
\* each token the call minted or reused and for no other, hence for every
\* reverse key the call wrote, and pseudonyms_count is their number.
C25_MappingComplete ==
    \A k \in 1..Len(resps) :
        /\ {m[1] : m \in resps[k].mapping} = resps[k].pseudonyms
        /\ \A e \in resps[k].wrote :
              e.dt = "reverse" => \E m \in resps[k].mapping : <<m[1]>> = e.kv
        /\ pseudonyms_count(resps[k].mapping) = Cardinality(resps[k].pseudonyms)

\* the text worker w would hold after this step had the value x been
\* substituted as Layer 1.5 substitutes a name
ComoEncabezado(w, x) ==
    LET pseudonimo == CHOOSE p \in {m[1] : m \in {n \in calls'[w].mapping : n[2] = x.value}} : TRUE
    IN  buscar_y_reemplazar_variaciones(calls[w].out,
            generar_variaciones_nombre(x.value), pseudonimo)[1]

\* C26 (NER substitution): the step that substitutes a name accepted by
\* Layer 2 leaves the text that buscar_y_reemplazar_variaciones gives for
\* the variations of that name.
C26_NerSubstitution ==
    [][\A w \in Procesos :
          \A x \in calls'[w].claimed \ calls[w].claimed :
              x.layer = "spacy" => calls'[w].out = ComoEncabezado(w, x)]_vars

\* C27 (Degraded mode): a call served while the NER model is not loaded
\* binds nothing by Layer 2, binds every detection of Layers 1, 1.5 and 3,
\* and its result is marked degraded.
C27_Degraded ==
    \A k \in 1..Len(resps) :
        ~resps[k].nlp =>
            /\ \A x \in resps[k].claimed : x.layer # "spacy"
            /\ \A i \in 1..Len(Detecciones(resps[k].text, <<>>)) :
                  LET c == Detecciones(resps[k].text, <<>>)[i]
                  IN  c.value \in resps[k].bound \/ Omitida(c, {})
            /\ "degraded" \in resps[k].keys

\* C28: in each extractor an overloaded LLM API is retried up to 5 attempts in
\* total, waiting 30 s before the second attempt and twice the previous wait
\* before each later one; the request fails after the last attempt; an error
\* that is not an overload is never retried; the loop ends within the 5
\* attempts; and between attempts the pseudonymization service is not called
\* again and the cache is not written.
EsperasExponenciales(n) == [i \in 1..n |-> 30 * (2 ^ (i - 1))]

IntentoLLM == req.st = "pseudonymized" /\ llm' # llm

C28_OverloadRetry ==
    /\ [](req.intento <= 4)
    /\ [](req.esperas = EsperasExponenciales(req.intento))
    /\ [](req.error = "overloaded" => req.intento = 4)
    /\ [][IntentoLLM =>
            /\ (req'.intento # req.intento => req'.ultimo = "overloaded")
            /\ (req'.ultimo = "overloaded" /\ req.intento < 4 =>
                   req'.st = "pseudonymized" /\ req'.intento = req.intento + 1)
            /\ UNCHANGED <<cache, calls, ncalls, resps>>]_vars

\* C29: deleting session S leaves every forward and reverse binding of every
\* other session unchanged, whatever the session-id strings are: ids that
\* contain ':' or glob metacharacters, or of which one is a prefix of the
\* other.
Destruye(w) == calls[w].pc = "delete" /\ calls'[w].pc = "deleted"

C29_DestroyFrame ==
    [][\A w \in Procesos : Destruye(w) =>
          \A e \in cache : e.sid # calls[w].sid => e \in cache']_vars

\* C30: within one pseudonymize call a pseudonym already inserted into the
\* output is never altered by a later substitution of another value, so the
\* output does not depend on the order of the substitutions, and every
\* pseudonym-shaped part of the output is a key of the returned mapping.
TokensEn(t) == {t[i] : i \in {j \in 1..Len(t) : t[j].k = "tok"}}

EnCurso(w) ==
    /\ calls[w].pc \notin {"idle", "done", "error", "delete", "deleted"}
    /\ calls'[w].sid = calls[w].sid /\ calls'[w].text = calls[w].text
    /\ calls'[w].pc \notin {"idle", "delete", "deleted"}

\* the literal substitutions of a response that bound two values, made in
\* the other order
OrdenInverso(r) ==
    LET a == CHOOSE m \in r.mapping : TRUE
        b == CHOOSE m \in r.mapping : m # a
    IN  StrReplace(StrReplace(r.text, a[2], <<a[1]>>), b[2], <<b[1]>>)
            = StrReplace(StrReplace(r.text, b[2], <<b[1]>>), a[2], <<a[1]>>)

C30_TokenIntegrity ==
    /\ [][\A w \in Procesos :
            EnCurso(w) => TokensEn(calls[w].out) \subseteq TokensEn(calls'[w].out)]_vars
    /\ [](\A k \in 1..Len(resps) :
            /\ \A tok \in TokensEn(resps[k].out) : \E m \in resps[k].mapping : m[1] = tok
            /\ (Cardinality(resps[k].mapping) = 2
                    /\ \A c \in resps[k].claimed : c.layer # "encabezado")
                  => OrdenInverso(resps[k]))

====
